---- MODULE Spec2Model ----
(***************************************************************************)
(* Model of extensions/amp-ad-network-doubleclick-impl/0.1/                *)
(* doubleclick-a4a-config.js: the DoubleclickA4aEligibility singleton, its *)
(* experiment selection (selectA4aExperiments), the Fast Fetch decision    *)
(* (shouldUseFastFetch / isA4aEnabled) and experimentFeatureEnabled.       *)
(***************************************************************************)
EXTENDS Integers, Sequences, FiniteSets, TLC

VARIABLES
  experimentBranches,   \* win.experimentBranches: [Wins -> [ExperimentNames -> id or UNDEFINED]]
  experimentToggles,    \* isExperimentOn(win, name): [Wins -> [ExperimentNames -> BOOLEAN]]
  devMode,              \* getMode(win).localDev || getMode(win).test, per window
  activeExperiments_,   \* key set of singleton.activeExperiments_ (every value is true)
  forcedIds,            \* history: ids passed to forceExperimentBranch by the singleton
  numCalls,             \* number of calls made so far
  lastCall              \* history: inputs, steps and result of the most recent call

vars == <<experimentBranches, experimentToggles, devMode, activeExperiments_,
          forcedIds, numCalls, lastCall>>

-----------------------------------------------------------------------------
(* Bounds *)

MaxCalls == 2

-----------------------------------------------------------------------------
(* JavaScript values *)

UNDEFINED == "undefined"
NULL == "null"

\* ToBoolean of a value that is null, undefined or a non-empty string.
Truthy(v) == v \notin {UNDEFINED, NULL}

-----------------------------------------------------------------------------
(* Constants of the file *)

DOUBLECLICK_A4A_EXPERIMENT_NAME == "expDoubleclickA4A"
DFP_CANONICAL_FF_EXPERIMENT_NAME == "expDfpCanonicalFf"
DOUBLECLICK_UNCONDITIONED_EXPERIMENT_NAME == "expUnconditionedDoubleclick"

ExperimentNames ==
  {DOUBLECLICK_A4A_EXPERIMENT_NAME, DFP_CANONICAL_FF_EXPERIMENT_NAME,
   DOUBLECLICK_UNCONDITIONED_EXPERIMENT_NAME}

DOUBLECLICK_EXPERIMENT_FEATURE ==
  [HOLDBACK_EXTERNAL_CONTROL |-> "21060726",
   HOLDBACK_EXTERNAL |-> "21060727",
   DELAYED_REQUEST_CONTROL |-> "21060728",
   DELAYED_REQUEST |-> "21060729",
   SRA_CONTROL |-> "117152666",
   SRA |-> "117152667",
   HOLDBACK_INTERNAL_CONTROL |-> "2092613",
   HOLDBACK_INTERNAL |-> "2092614",
   CANONICAL_CONTROL |-> "21060932",
   CANONICAL_EXPERIMENT |-> "21060933",
   CACHE_EXTENSION_INJECTION_CONTROL |-> "21060955",
   CACHE_EXTENSION_INJECTION_EXP |-> "21060956",
   IDENTITY_CONTROL |-> "21060937",
   IDENTITY_EXPERIMENT |-> "21060938",
   UNCONDITIONED_FF_CONTROL |-> "21061145",
   UNCONDITIONED_FF_EXPERIMENT |-> "21061146"]

\* Property read of the enum: a key the enum does not have reads undefined.
FeatureLookup(key) ==
  IF key \in DOMAIN DOUBLECLICK_EXPERIMENT_FEATURE
  THEN DOUBLECLICK_EXPERIMENT_FEATURE[key]
  ELSE UNDEFINED

DOUBLECLICK_UNCONDITIONED_EXPERIMENTS ==
  [FF_CANONICAL_CTL |-> "21061145", FF_CANONICAL_EXP |-> "21061146"]

\* Imported from ads/google/a4a/traffic-experiments.
MANUAL_EXPERIMENT_ID == "117152632"

BETA_EXPERIMENT_ID == "2077831"

URL_EXPERIMENT_MAPPING ==
  [u \in {"-1", "0", "1", "2", "3", "4", "5", "6", "7", "8", "9", "10"} |->
     CASE u = "-1" -> MANUAL_EXPERIMENT_ID
       [] u = "0" -> NULL
       [] u = "1" -> DOUBLECLICK_EXPERIMENT_FEATURE.HOLDBACK_EXTERNAL_CONTROL
       [] u = "2" -> DOUBLECLICK_EXPERIMENT_FEATURE.HOLDBACK_EXTERNAL
       [] u = "3" -> DOUBLECLICK_EXPERIMENT_FEATURE.DELAYED_REQUEST_CONTROL
       [] u = "4" -> DOUBLECLICK_EXPERIMENT_FEATURE.DELAYED_REQUEST
       [] u = "5" -> DOUBLECLICK_EXPERIMENT_FEATURE.IDENTITY_CONTROL
       [] u = "6" -> DOUBLECLICK_EXPERIMENT_FEATURE.IDENTITY_EXPERIMENT
       [] u = "7" -> DOUBLECLICK_EXPERIMENT_FEATURE.SRA_CONTROL
       [] u = "8" -> DOUBLECLICK_EXPERIMENT_FEATURE.SRA
       [] u = "9" -> DOUBLECLICK_EXPERIMENT_FEATURE.CACHE_EXTENSION_INJECTION_CONTROL
       [] u = "10" -> DOUBLECLICK_EXPERIMENT_FEATURE.CACHE_EXTENSION_INJECTION_EXP]

\* URL_EXPERIMENT_MAPPING[urlExperimentId]: a missing key reads undefined.
UrlMappingLookup(u) ==
  IF u \in DOMAIN URL_EXPERIMENT_MAPPING THEN URL_EXPERIMENT_MAPPING[u] ELSE UNDEFINED

-----------------------------------------------------------------------------
(* Windows, elements and the values extractUrlExperimentId can return *)

\* Origins of the modelled windows and the verdict of googleCdnProxyRegex on them.
WinOrigin ==
  [w1 |-> "https://cdn.ampproject.org",
   w2 |-> "https://www.example.com"]

Wins == DOMAIN WinOrigin

\* supportsNativeCrypto(win) of the modelled windows.
WinSupportsCrypto == [w1 |-> TRUE, w2 |-> FALSE]

CdnProxyOrigins ==
  {"https://cdn.ampproject.org", "https://foo-bar.cdn.ampproject.org"}

isCdnProxy(win) == WinOrigin[win] \in CdnProxyOrigins

\* extractUrlExperimentId returns null or the digits (with sign) of the exp parameter.
UrlExperimentIds ==
  {NULL, "-1", "0", "1", "2", "3", "4", "5", "6", "7", "8", "9", "10", "11"}

\* ToNumber of the digit strings, for the loose comparisons with -1.
UrlIdNumber ==
  [u \in UrlExperimentIds \ {NULL} |->
     CASE u = "-1" -> 0 - 1
       [] u = "0" -> 0
       [] u = "1" -> 1
       [] u = "2" -> 2
       [] u = "3" -> 3
       [] u = "4" -> 4
       [] u = "5" -> 5
       [] u = "6" -> 6
       [] u = "7" -> 7
       [] u = "8" -> 8
       [] u = "9" -> 9
       [] u = "10" -> 10
       [] u = "11" -> 11]

\* urlExperimentId == n for a number n: null never equals a number.
LooseEqNumber(u, n) == IF u \in {NULL, UNDEFINED} THEN FALSE ELSE UrlIdNumber[u] = n

\* urlExperimentId == undefined: true exactly for null and undefined.
LooseEqUndefined(u) == u \in {NULL, UNDEFINED}

\* The attributes of an element the file reads, and the useRemoteHtml argument.
Elements ==
  [useRemoteHtml : BOOLEAN,
   rtcConfig : BOOLEAN,
   sameDomainDataset : BOOLEAN,
   sameDomainAttribute : BOOLEAN,
   betaAttribute : BOOLEAN]

-----------------------------------------------------------------------------
(* The experiment utility of src/experiments, acting on one window.        *)
(* A call context c carries the window's branches and toggles, the         *)
(* singleton's flag map, the steps logged so far, the last value returned  *)
(* (ret) and whether an exception is propagating (threw).                  *)

Log(c, kind, name, id) ==
  [c EXCEPT !.events =
     Append(@, [phase |-> c.phase, kind |-> kind, name |-> name, id |-> id])]

\* getExperimentBranch(win, experimentName)
getExperimentBranch(branches, experimentName) == branches[experimentName]

\* forceExperimentBranch(win, experimentName, branchId)
forceExperimentBranch(c, experimentName, branchId) ==
  LET c1 == Log(c, "forceExperimentBranch", experimentName, branchId)
  IN [c1 EXCEPT !.branches[experimentName] = branchId,
                !.toggles[experimentName] = Truthy(branchId),
                !.forced = @ \cup {branchId}]

\* randomlySelectUnsetExperiments(win, {experimentName: {isTrafficEligible: () => true,
\* branches}}): an experiment that already has a branch is skipped; an unset one
\* that is on gets branches[pick]; indexing a missing branch list throws.
randomlySelectUnsetExperiments(c, experimentName, hasBranches, branches, pick) ==
  IF c.branches[experimentName] # UNDEFINED THEN c
  ELSE IF ~c.toggles[experimentName] THEN c
  ELSE IF ~hasBranches THEN [c EXCEPT !.threw = TRUE]
  ELSE [c EXCEPT !.branches[experimentName] = branches[pick]]

\* addExperimentIdToElement(experimentId, element)
addExperimentIdToElement(c, experimentId) ==
  Log(c, "addExperimentIdToElement", "", experimentId)

-----------------------------------------------------------------------------
(* DoubleclickA4aEligibility *)

\* maybeSelectExperiment(win, element, selectionBranches, experimentName)
maybeSelectExperiment(c, hasBranches, selectionBranches, experimentName, pick) ==
  LET c1 == randomlySelectUnsetExperiments(
              c, experimentName, hasBranches, selectionBranches, pick)
      ret == IF c1.threw THEN UNDEFINED
             ELSE getExperimentBranch(c1.branches, experimentName)
  IN Log([c1 EXCEPT !.ret = ret], "maybeSelectExperiment", experimentName, ret)

\* this.activeExperiments_[experimentId] = true
RecordActive(c, experimentId) ==
  LET c1 == Log(c, "activeExperiments_", "", experimentId)
  IN [c1 EXCEPT !.active = @ \cup {experimentId}]

UnconditionedBranches ==
  <<DOUBLECLICK_UNCONDITIONED_EXPERIMENTS.FF_CANONICAL_CTL,
    DOUBLECLICK_UNCONDITIONED_EXPERIMENTS.FF_CANONICAL_EXP>>

\* Variant of unconditionedSelection_ that records the returned value in
\* activeExperiments_ outside the if (experimentId) guard.
unconditionedSelectionRecordingUnguarded(c, pick) ==
  LET c1 == maybeSelectExperiment(
              [c EXCEPT !.phase = "unconditioned"], TRUE, UnconditionedBranches,
              DOUBLECLICK_UNCONDITIONED_EXPERIMENT_NAME, pick)
      experimentId == c1.ret
  IN IF Truthy(experimentId)
     THEN RecordActive(
            forceExperimentBranch(
              addExperimentIdToElement(c1, experimentId),
              DOUBLECLICK_UNCONDITIONED_EXPERIMENT_NAME, experimentId),
            experimentId)
     ELSE RecordActive(c1, experimentId)

\* unconditionedSelection_(win, element)
unconditionedSelection_(c, pick) ==
  LET c1 == maybeSelectExperiment(
              [c EXCEPT !.phase = "unconditioned"], TRUE, UnconditionedBranches,
              DOUBLECLICK_UNCONDITIONED_EXPERIMENT_NAME, pick)
      experimentId == c1.ret
  IN IF Truthy(experimentId)
     THEN RecordActive(
            forceExperimentBranch(
              addExperimentIdToElement(c1, experimentId),
              DOUBLECLICK_UNCONDITIONED_EXPERIMENT_NAME, experimentId),
            experimentId)
     ELSE c1

\* isFastFetchEligible, as computed in selectA4aExperiments and shouldUseFastFetch
isFastFetchEligible(element) ==
  ~((element.useRemoteHtml /\ ~element.rtcConfig)
    \/ element.sameDomainDataset
    \/ element.sameDomainAttribute)

\* The locals the diversion criteria close over.
Locals(win, element, urlExperimentId, isDevMode) ==
  [urlExperimentId |-> urlExperimentId,
   isFastFetchEligible |-> isFastFetchEligible(element),
   isCdnProxy |-> isCdnProxy(win),
   isDevMode |-> isDevMode,
   hasBetaAttribute |-> element.betaAttribute]

ManualCriteria(l) ==
  l.isFastFetchEligible /\ ~l.isCdnProxy /\ LooseEqNumber(l.urlExperimentId, 0 - 1)
    /\ l.isDevMode

\* Variant of CanonicalCriteria that does not exclude the manual case.
CanonicalCriteriaIgnoringManual(l) ==
  l.isFastFetchEligible /\ ~l.isCdnProxy

CanonicalCriteria(l) ==
  l.isFastFetchEligible /\ ~l.isCdnProxy
    /\ (~LooseEqNumber(l.urlExperimentId, 0 - 1) \/ ~l.isDevMode)

HoldbackInternalCriteria(l) ==
  l.isFastFetchEligible /\ l.isCdnProxy /\ LooseEqUndefined(l.urlExperimentId)
    /\ ~l.hasBetaAttribute

UrlCriteria(l) ==
  l.isFastFetchEligible /\ l.isCdnProxy /\ ~LooseEqUndefined(l.urlExperimentId)
    /\ ~l.hasBetaAttribute

BetaCriteria(l) ==
  l.isFastFetchEligible /\ l.isCdnProxy /\ l.hasBetaAttribute

\* forceExperimentId of the URL tuple
UrlForceExperimentId(l) ==
  IF Truthy(l.urlExperimentId) THEN UrlMappingLookup(l.urlExperimentId) ELSE NULL

\* const experiments = [...]: the five tuples, in order.  A tuple without
\* forceExperimentId reads undefined there; one without experimentBranchIds
\* has hasBranchIds false.
experiments(l) ==
  << [tuple |-> "manual",
      forceExperimentId |-> MANUAL_EXPERIMENT_ID,
      hasBranchIds |-> FALSE, experimentBranchIds |-> << >>,
      experimentName |-> DFP_CANONICAL_FF_EXPERIMENT_NAME,
      diversionCriteria |-> ManualCriteria(l)],
     [tuple |-> "canonical",
      forceExperimentId |-> UNDEFINED,
      hasBranchIds |-> TRUE,
      experimentBranchIds |-> <<DOUBLECLICK_EXPERIMENT_FEATURE.CANONICAL_CONTROL,
                                DOUBLECLICK_EXPERIMENT_FEATURE.CANONICAL_EXPERIMENT>>,
      experimentName |-> DFP_CANONICAL_FF_EXPERIMENT_NAME,
      diversionCriteria |-> CanonicalCriteria(l)],
     [tuple |-> "holdbackInternal",
      forceExperimentId |-> UNDEFINED,
      hasBranchIds |-> TRUE,
      experimentBranchIds |-> <<DOUBLECLICK_EXPERIMENT_FEATURE.HOLDBACK_INTERNAL_CONTROL,
                                DOUBLECLICK_EXPERIMENT_FEATURE.HOLDBACK_INTERNAL>>,
      experimentName |-> DOUBLECLICK_A4A_EXPERIMENT_NAME,
      diversionCriteria |-> HoldbackInternalCriteria(l)],
     [tuple |-> "url",
      forceExperimentId |-> UrlForceExperimentId(l),
      hasBranchIds |-> FALSE, experimentBranchIds |-> << >>,
      experimentName |-> DOUBLECLICK_A4A_EXPERIMENT_NAME,
      diversionCriteria |-> UrlCriteria(l)],
     [tuple |-> "beta",
      forceExperimentId |-> BETA_EXPERIMENT_ID,
      hasBranchIds |-> FALSE, experimentBranchIds |-> << >>,
      experimentName |-> DOUBLECLICK_A4A_EXPERIMENT_NAME,
      diversionCriteria |-> BetaCriteria(l)] >>

\* Variant of ConditionedForceName that forces under the tuple's own experimentName.
ConditionedForceNameOfTuple(experiment) == experiment.experimentName

\* The experiment name the conditioned pass forces the selected id under.
ConditionedForceName(experiment) == DOUBLECLICK_A4A_EXPERIMENT_NAME

\* experimentId = experiment.forceExperimentId || this.maybeSelectExperiment(...)
SelectExperimentId(c, experiment, pick) ==
  IF Truthy(experiment.forceExperimentId)
  THEN [c EXCEPT !.ret = experiment.forceExperimentId]
  ELSE maybeSelectExperiment(c, experiment.hasBranchIds, experiment.experimentBranchIds,
                             experiment.experimentName, pick)

\* The callback of experiments.forEach
ApplyExperiment(c, experiment, pick) ==
  LET c0 == Log(c, "diversionCriteria", experiment.tuple,
                IF experiment.diversionCriteria THEN "true" ELSE "false")
  IN IF ~experiment.diversionCriteria THEN c0
     ELSE LET c1 == SelectExperimentId(c0, experiment, pick)
              experimentId == c1.ret
          IN IF c1.threw THEN c1
             ELSE IF Truthy(experimentId)
             THEN RecordActive(
                    forceExperimentBranch(
                      addExperimentIdToElement(c1, experimentId),
                      ConditionedForceName(experiment), experimentId),
                    experimentId)
             ELSE c1

\* experiments.forEach(...): every tuple is visited, in order; an exception ends it.
RECURSIVE ForEachExperiment(_, _, _, _)
ForEachExperiment(c, exps, i, pick) ==
  IF i > Len(exps) \/ c.threw THEN c
  ELSE ForEachExperiment(ApplyExperiment(c, exps[i], pick), exps, i + 1, pick)

\* Variant of selectA4aExperiments that starts every call from an empty flag map.
selectA4aExperimentsResettingFlags(c, l, pick1, pick2) ==
  LET c1 == unconditionedSelection_([c EXCEPT !.active = {}], pick1)
  IN ForEachExperiment([c1 EXCEPT !.phase = "conditioned"], experiments(l), 1, pick2)

\* Variant of selectA4aExperiments that runs the pre-pass only for Fast Fetch
\* eligible elements.
selectA4aExperimentsPrePassIfEligible(c, l, pick1, pick2) ==
  LET c1 == IF l.isFastFetchEligible THEN unconditionedSelection_(c, pick1) ELSE c
  IN ForEachExperiment([c1 EXCEPT !.phase = "conditioned"], experiments(l), 1, pick2)

\* selectA4aExperiments(win, element, useRemoteHtml)
selectA4aExperiments(c, l, pick1, pick2) ==
  LET c1 == unconditionedSelection_(c, pick1)
  IN ForEachExperiment([c1 EXCEPT !.phase = "conditioned"], experiments(l), 1, pick2)

fastFetchIneligibleExperiments ==
  {DOUBLECLICK_EXPERIMENT_FEATURE.HOLDBACK_EXTERNAL,
   DOUBLECLICK_EXPERIMENT_FEATURE.HOLDBACK_INTERNAL,
   DOUBLECLICK_EXPERIMENT_FEATURE.CANONICAL_CONTROL,
   FeatureLookup("UNCONDITIONED_FF_CANONICAL_CTL")}

\* The only key of fastFetchPredicates
FastFetchPredicateKey == FeatureLookup("UNCONDITIONED_FF_CANONICAL_EXP")

\* fastFetchPredicates[key](): supportsCrypto(win) is an input
FastFetchPredicate(l, supportsCrypto) ==
  l.isFastFetchEligible /\ ~l.isCdnProxy
    /\ ~(LooseEqNumber(l.urlExperimentId, 0 - 1) /\ l.isDevMode)
    /\ ~supportsCrypto

\* The callback of Object.keys(this.activeExperiments_).forEach: the value it
\* returns (false, or undefined when it falls off the end).
IneligibleCallback(experimentId, l, supportsCrypto) ==
  IF experimentId \in fastFetchIneligibleExperiments
     \/ (experimentId = FastFetchPredicateKey /\ ~FastFetchPredicate(l, supportsCrypto))
  THEN "false"
  ELSE UNDEFINED

\* Variant of shouldUseFastFetch that does not test the origin.
shouldUseFastFetchIgnoringOrigin(active, l, supportsCrypto) ==
  l.isFastFetchEligible

\* shouldUseFastFetch(win, element, useRemoteHtml): forEach discards what its
\* callback returns.
shouldUseFastFetch(active, l, supportsCrypto) ==
  LET discarded == {IneligibleCallback(k, l, supportsCrypto) : k \in active}
  IN l.isFastFetchEligible /\ l.isCdnProxy

\* experimentFeatureEnabled(win, feature, opt_experimentName)
experimentFeatureEnabled(branches, feature, opt_experimentName) ==
  LET experimentName == IF Truthy(opt_experimentName) THEN opt_experimentName
                        ELSE DOUBLECLICK_A4A_EXPERIMENT_NAME
  IN getExperimentBranch(branches, experimentName) = feature

-----------------------------------------------------------------------------
(* Inputs the calls are explored with *)

\* Return values of extractUrlExperimentId the calls are explored with: none,
\* manual, the id mapped to null, and an id mapped to a Fast-Fetch-ineligible branch.
CallUrlExperimentIds == {NULL, "-1", "0", "2"}

PlainElement ==
  [useRemoteHtml |-> FALSE, rtcConfig |-> FALSE, sameDomainDataset |-> FALSE,
   sameDomainAttribute |-> FALSE, betaAttribute |-> FALSE]

\* A plain element, one with the beta attribute, one that is not Fast Fetch eligible.
CallElements ==
  {PlainElement,
   [PlainElement EXCEPT !.betaAttribute = TRUE],
   [PlainElement EXCEPT !.useRemoteHtml = TRUE]}

\* Features and experiment names experimentFeatureEnabled is asked about.
QueryFeatures ==
  {DOUBLECLICK_EXPERIMENT_FEATURE.HOLDBACK_INTERNAL,
   DOUBLECLICK_EXPERIMENT_FEATURE.CANONICAL_EXPERIMENT,
   BETA_EXPERIMENT_ID}

QueryExperimentNames ==
  {UNDEFINED, DFP_CANONICAL_FF_EXPERIMENT_NAME, DOUBLECLICK_UNCONDITIONED_EXPERIMENT_NAME}

Picks == {1, 2}

-----------------------------------------------------------------------------
(* The state machine *)

NoCall ==
  [op |-> "none", win |-> "w1", element |-> PlainElement, urlExperimentId |-> NULL,
   feature |-> UNDEFINED, experimentName |-> UNDEFINED, events |-> << >>,
   threw |-> FALSE, result |-> UNDEFINED]

\* The call context a method of the singleton starts from. 
Context(win) ==
  [branches |-> experimentBranches[win], toggles |-> experimentToggles[win],
   active |-> activeExperiments_, forced |-> forcedIds, events |-> << >>,
   phase |-> "call", ret |-> UNDEFINED, threw |-> FALSE]

\* Writes a finished context back to the window and the singleton.
Commit(win, c) ==
  /\ experimentBranches' = [experimentBranches EXCEPT ![win] = c.branches]
  /\ experimentToggles' = [experimentToggles EXCEPT ![win] = c.toggles]
  /\ activeExperiments_' = c.active
  /\ forcedIds' = c.forced

\* selectRandomItem draws a random index only for an experiment that is unset and
\* on: the indices a call on win can draw for experimentName.
Draws(win, experimentName) ==
  IF experimentBranches[win][experimentName] = UNDEFINED
     /\ experimentToggles[win][experimentName]
  THEN Picks
  ELSE {1}

\* The indices the conditioned pass can draw: those of the tuples with branch ids
\* whose criterion passes.
ConditionedDraws(win, l) ==
  UNION ({{1}} \cup
         {Draws(win, experiments(l)[i].experimentName) :
            i \in {j \in 1..Len(experiments(l)) :
                     experiments(l)[j].diversionCriteria /\ experiments(l)[j].hasBranchIds}})

JsBoolean(b) == IF b THEN "true" ELSE "false"

\* new DoubleclickA4aEligibility(): this.activeExperiments_ = {}
Init ==
  /\ experimentBranches = [w \in Wins |-> [n \in ExperimentNames |-> UNDEFINED]]
  /\ \E unconditioned \in BOOLEAN, conditioned \in BOOLEAN :
       experimentToggles =
         [w \in Wins |->
            [n \in ExperimentNames |->
               IF n = DOUBLECLICK_UNCONDITIONED_EXPERIMENT_NAME THEN unconditioned
               ELSE conditioned]]
  /\ \E d \in BOOLEAN : devMode = [w \in Wins |-> d]
  /\ activeExperiments_ = {}
  /\ forcedIds = {}
  /\ numCalls = 0
  /\ lastCall = NoCall

\* singleton.selectA4aExperiments(win, element, useRemoteHtml)
SelectA4aExperimentsOn(win, element, urlExperimentId) ==
  LET l == Locals(win, element, urlExperimentId, devMode[win])
  IN \E pick1 \in Draws(win, DOUBLECLICK_UNCONDITIONED_EXPERIMENT_NAME),
        pick2 \in ConditionedDraws(win, l) :
     LET c == selectA4aExperiments(Context(win), l, pick1, pick2)
     IN
     /\ Commit(win, c)
     /\ numCalls' = numCalls + 1
     /\ lastCall' = [NoCall EXCEPT !.op = "selectA4aExperiments", !.win = win,
                       !.element = element, !.urlExperimentId = urlExperimentId,
                       !.events = c.events, !.threw = c.threw]
     /\ UNCHANGED devMode

SelectA4aExperiments ==
  /\ numCalls < MaxCalls
  /\ \E win \in Wins, element \in CallElements, urlExperimentId \in CallUrlExperimentIds :
       SelectA4aExperimentsOn(win, element, urlExperimentId)

\* singleton.shouldUseFastFetch(win, element, useRemoteHtml)
ShouldUseFastFetch ==
  /\ numCalls < MaxCalls
  /\ \E win \in Wins, element \in CallElements, urlExperimentId \in {NULL, "-1"} :
    LET l == Locals(win, element, urlExperimentId, devMode[win])
        supportsCrypto == WinSupportsCrypto[win]
    IN /\ numCalls' = numCalls + 1
       /\ lastCall' = [NoCall EXCEPT !.op = "shouldUseFastFetch", !.win = win,
                         !.element = element, !.urlExperimentId = urlExperimentId,
                         !.result = JsBoolean(
                            shouldUseFastFetch(activeExperiments_, l, supportsCrypto))]
       /\ UNCHANGED <<experimentBranches, experimentToggles, devMode,
                      activeExperiments_, forcedIds>>

\* isA4aEnabled(win, element, useRemoteHtml): the context after selection and the
\* value returned (nothing is returned when selection throws).
isA4aEnabled(c, l, supportsCrypto, pick1, pick2) ==
  LET c1 == selectA4aExperiments(c, l, pick1, pick2)
  IN IF c1.threw THEN c1
     ELSE [c1 EXCEPT !.ret = JsBoolean(shouldUseFastFetch(c1.active, l, supportsCrypto))]

\* doubleclickIsA4AEnabled(win, element, useRemoteHtml)
DoubleclickIsA4AEnabled ==
  /\ numCalls < MaxCalls
  /\ \E win \in Wins, element \in CallElements, urlExperimentId \in CallUrlExperimentIds :
       LET l == Locals(win, element, urlExperimentId, devMode[win])
       IN \E pick1 \in Draws(win, DOUBLECLICK_UNCONDITIONED_EXPERIMENT_NAME),
             pick2 \in ConditionedDraws(win, l) :
          LET c == isA4aEnabled(Context(win), l, WinSupportsCrypto[win], pick1, pick2)
          IN
          /\ Commit(win, c)
          /\ numCalls' = numCalls + 1
          /\ lastCall' = [NoCall EXCEPT !.op = "isA4aEnabled", !.win = win,
                            !.element = element, !.urlExperimentId = urlExperimentId,
                            !.events = c.events, !.threw = c.threw,
                            !.result = IF c.threw THEN UNDEFINED ELSE c.ret]
          /\ UNCHANGED devMode

\* The (selectionBranches, experimentName) pairs the file calls maybeSelectExperiment with.
SelectionArguments ==
  {[branches |-> UnconditionedBranches,
    name |-> DOUBLECLICK_UNCONDITIONED_EXPERIMENT_NAME]}
  \cup {[branches |-> experiments(Locals("w1", PlainElement, NULL, FALSE))[i].experimentBranchIds,
         name |-> experiments(Locals("w1", PlainElement, NULL, FALSE))[i].experimentName]
          : i \in {2, 3}}

\* singleton.maybeSelectExperiment(win, element, selectionBranches, experimentName)
MaybeSelectExperiment ==
  /\ numCalls < MaxCalls
  /\ \E win \in Wins, a \in SelectionArguments :
       \E pick \in Draws(win, a.name) :
       LET c == maybeSelectExperiment(Context(win), TRUE, a.branches, a.name, pick)
       IN /\ Commit(win, c)
          /\ numCalls' = numCalls + 1
          /\ lastCall' = [NoCall EXCEPT !.op = "maybeSelectExperiment", !.win = win,
                            !.experimentName = a.name, !.events = c.events,
                            !.result = c.ret]
          /\ UNCHANGED devMode

\* experimentFeatureEnabled(win, feature, opt_experimentName)
ExperimentFeatureEnabled ==
  /\ numCalls < MaxCalls
  /\ \E win \in Wins, feature \in QueryFeatures,
     opt_experimentName \in QueryExperimentNames :
    /\ numCalls' = numCalls + 1
    /\ lastCall' = [NoCall EXCEPT !.op = "experimentFeatureEnabled", !.win = win,
                      !.feature = feature, !.experimentName = opt_experimentName,
                      !.result = JsBoolean(experimentFeatureEnabled(
                         experimentBranches[win], feature, opt_experimentName))]
    /\ UNCHANGED <<experimentBranches, experimentToggles, devMode,
                   activeExperiments_, forcedIds>>

Next ==
  \/ SelectA4aExperiments
  \/ ShouldUseFastFetch
  \/ DoubleclickIsA4AEnabled
  \/ MaybeSelectExperiment
  \/ ExperimentFeatureEnabled

Spec == Init /\ [][Next]_vars

-----------------------------------------------------------------------------
(* One call on a fresh singleton, over every input of selectA4aExperiments: *)
(* every element shape, every value of extractUrlExperimentId, every toggle *)
(* and mode of the window.                                                  *)

InitInputs ==
  /\ experimentBranches = [w \in Wins |-> [n \in ExperimentNames |-> UNDEFINED]]
  /\ \E t \in [ExperimentNames -> BOOLEAN] : experimentToggles = [w \in Wins |-> t]
  /\ devMode \in [Wins -> BOOLEAN]
  /\ activeExperiments_ = {}
  /\ forcedIds = {}
  /\ numCalls = 0
  /\ lastCall = NoCall

SelectA4aExperimentsAnyInput ==
  /\ numCalls = 0
  /\ \E win \in Wins, element \in Elements, urlExperimentId \in UrlExperimentIds :
       SelectA4aExperimentsOn(win, element, urlExperimentId)

NextInputs == SelectA4aExperimentsAnyInput

SpecInputs == InitInputs /\ [][NextInputs]_vars

-----------------------------------------------------------------------------
(* Vocabulary of the properties *)

IsSelectCall == lastCall.op \in {"selectA4aExperiments", "isA4aEnabled"}

CallLocals ==
  Locals(lastCall.win, lastCall.element, lastCall.urlExperimentId, devMode[lastCall.win])

\* Indices of the steps of the last call of a kind in a phase.
Steps(phase, kind) ==
  {i \in 1..Len(lastCall.events) :
     lastCall.events[i].phase = phase /\ lastCall.events[i].kind = kind}

\* Ids the last call applied in a phase: added to the element, forced or recorded.
AppliedIds(phase) ==
  {lastCall.events[i].id :
     i \in Steps(phase, "addExperimentIdToElement")
           \cup Steps(phase, "forceExperimentBranch")
           \cup Steps(phase, "activeExperiments_")}

\* The tuples of the last call whose diversion criterion is true.
PassingTuples ==
  {i \in 1..Len(experiments(CallLocals)) : experiments(CallLocals)[i].diversionCriteria}

SeqRange(q) == {q[i] : i \in 1..Len(q)}

AllFeatureIds ==
  {DOUBLECLICK_EXPERIMENT_FEATURE[k] : k \in DOMAIN DOUBLECLICK_EXPERIMENT_FEATURE}
  \cup {MANUAL_EXPERIMENT_ID, BETA_EXPERIMENT_ID}

-----------------------------------------------------------------------------
(* Properties *)

\* C1: whenever activeExperiments_ holds a Fast-Fetch-ineligible experiment id
\* (HOLDBACK_EXTERNAL, HOLDBACK_INTERNAL or CANONICAL_CONTROL), shouldUseFastFetch
\* and isA4aEnabled return false.
C1_IneligibleExperimentDisablesFastFetch ==
  (/\ lastCall.op \in {"shouldUseFastFetch", "isA4aEnabled"}
   /\ ~lastCall.threw
   /\ activeExperiments_ \cap {DOUBLECLICK_EXPERIMENT_FEATURE.HOLDBACK_EXTERNAL,
                               DOUBLECLICK_EXPERIMENT_FEATURE.HOLDBACK_INTERNAL,
                               DOUBLECLICK_EXPERIMENT_FEATURE.CANONICAL_CONTROL} # {})
  => lastCall.result = "false"

\* C2: in a selectA4aExperiments call exactly one of the five tuples has a true
\* diversion criterion when the element is Fast Fetch eligible and none has when it
\* is not, so the forEach applies at most one conditioned tuple.
C2_FirstMatchWins ==
  IsSelectCall =>
    /\ Cardinality(PassingTuples)
         = (IF isFastFetchEligible(lastCall.element) THEN 1 ELSE 0)
    /\ Cardinality({i \in Steps("conditioned", "diversionCriteria") :
                      lastCall.events[i].id = "true"})
         = (IF isFastFetchEligible(lastCall.element) THEN 1 ELSE 0)
    /\ Cardinality(Steps("conditioned", "forceExperimentBranch")) <= 1

C2_Witness ==
  /\ IsSelectCall
  /\ lastCall.urlExperimentId = "10"
  /\ lastCall.element.rtcConfig /\ lastCall.element.useRemoteHtml
  /\ PassingTuples = {4}
  /\ AppliedIds("conditioned") = {DOUBLECLICK_EXPERIMENT_FEATURE.CACHE_EXTENSION_INJECTION_EXP}

\* C3: every key of activeExperiments_ is an id that was passed to
\* forceExperimentBranch, and shouldUseFastFetch, maybeSelectExperiment and
\* experimentFeatureEnabled add no key.
C3_KeysWereForced ==
  /\ [](activeExperiments_ \subseteq forcedIds)
  /\ [][lastCall'.op \in {"shouldUseFastFetch", "maybeSelectExperiment",
                          "experimentFeatureEnabled"}
          => activeExperiments_' = activeExperiments_]_vars

C3_Witness ==
  /\ lastCall.op = "maybeSelectExperiment"
  /\ Truthy(lastCall.result)
  /\ activeExperiments_ # {}
  /\ lastCall.result \notin activeExperiments_

\* C4: the flag map is never reset: a key recorded in activeExperiments_ stays
\* recorded after every later call, for any window and element.
C4_FlagMapOnlyGrows ==
  [][activeExperiments_ \subseteq activeExperiments_']_vars

C4_Witness ==
  /\ IsSelectCall
  /\ numCalls >= 2
  /\ AppliedIds("unconditioned") \cup AppliedIds("conditioned") # {}
  /\ \E k \in activeExperiments_ :
       k \notin AppliedIds("unconditioned") \cup AppliedIds("conditioned")

\* C5: every selectA4aExperiments call first attempts selection into
\* expUnconditionedDoubleclick, before any conditioned tuple is evaluated; an id it
\* yields is added to the element, forced as that experiment's branch and recorded
\* in activeExperiments_, also for elements that are not Fast Fetch eligible.
C5_UnconditionedPrePass ==
  IsSelectCall =>
    /\ Len(lastCall.events) >= 1
    /\ lastCall.events[1] =
         [phase |-> "unconditioned", kind |-> "maybeSelectExperiment",
          name |-> DOUBLECLICK_UNCONDITIONED_EXPERIMENT_NAME,
          id |-> lastCall.events[1].id]
    /\ \A i, j \in 1..Len(lastCall.events) :
         (lastCall.events[i].phase = "unconditioned"
            /\ lastCall.events[j].phase = "conditioned") => i < j
    /\ Truthy(lastCall.events[1].id) =>
         /\ lastCall.events[1].id \in SeqRange(UnconditionedBranches)
         /\ Len(lastCall.events) >= 4
         /\ lastCall.events[2] =
              [phase |-> "unconditioned", kind |-> "addExperimentIdToElement",
               name |-> "", id |-> lastCall.events[1].id]
         /\ lastCall.events[3] =
              [phase |-> "unconditioned", kind |-> "forceExperimentBranch",
               name |-> DOUBLECLICK_UNCONDITIONED_EXPERIMENT_NAME,
               id |-> lastCall.events[1].id]
         /\ lastCall.events[4] =
              [phase |-> "unconditioned", kind |-> "activeExperiments_",
               name |-> "", id |-> lastCall.events[1].id]
         /\ experimentBranches[lastCall.win][DOUBLECLICK_UNCONDITIONED_EXPERIMENT_NAME]
              = lastCall.events[1].id
         /\ lastCall.events[1].id \in activeExperiments_

C5_Witness ==
  /\ IsSelectCall
  /\ ~isFastFetchEligible(lastCall.element)
  /\ AppliedIds("unconditioned") = {DOUBLECLICK_UNCONDITIONED_EXPERIMENTS.FF_CANONICAL_EXP}
  /\ DOUBLECLICK_UNCONDITIONED_EXPERIMENTS.FF_CANONICAL_EXP \in activeExperiments_

\* C6: experimentFeatureEnabled returns true exactly when the branch recorded for
\* the experiment name (expDoubleclickA4A when omitted) equals the feature; right
\* after a selectA4aExperiments call that applied a conditioned id X it is true for
\* X and false for every other feature id, under the default name.
C6_FeatureEnabledMatchesBranch ==
  /\ lastCall.op = "experimentFeatureEnabled" =>
       (lastCall.result = "true") =
         (experimentBranches[lastCall.win][
            IF lastCall.experimentName = UNDEFINED THEN DOUBLECLICK_A4A_EXPERIMENT_NAME
            ELSE lastCall.experimentName] = lastCall.feature)
  /\ IsSelectCall =>
       \A X \in AppliedIds("conditioned") : \A Y \in AllFeatureIds :
         experimentFeatureEnabled(experimentBranches[lastCall.win], Y, UNDEFINED)
           = (Y = X)

C6_Witness ==
  /\ IsSelectCall
  /\ AppliedIds("conditioned") = {DOUBLECLICK_EXPERIMENT_FEATURE.CANONICAL_EXPERIMENT}
  /\ experimentFeatureEnabled(experimentBranches[lastCall.win],
                              DOUBLECLICK_EXPERIMENT_FEATURE.CANONICAL_EXPERIMENT, UNDEFINED)

\* C7: in a call whose unconditioned pre-pass selected and forced an id, the
\* conditioned pass forces no experiment id, adds none to the element and records
\* none in activeExperiments_.
C7_UnconditionedTakesPrecedence ==
  (IsSelectCall /\ Steps("unconditioned", "forceExperimentBranch") # {})
  => AppliedIds("conditioned") = {}

\* C8: when the criterion of a tuple with a forced id (manual, URL, beta) passes,
\* the window's expDoubleclickA4A branch becomes that tuple's forced id, the id is
\* recorded in activeExperiments_ and maybeSelectExperiment is not called, for
\* every urlExperimentId.
C8_ForcedTupleForcesItsId ==
  IsSelectCall =>
    \A i \in PassingTuples \cap {1, 4, 5} :
      /\ experimentBranches[lastCall.win][DOUBLECLICK_A4A_EXPERIMENT_NAME]
           = experiments(CallLocals)[i].forceExperimentId
      /\ experiments(CallLocals)[i].forceExperimentId \in activeExperiments_
      /\ Steps("conditioned", "maybeSelectExperiment") = {}

\* C9: when the criterion of a tuple with experimentBranchIds (canonical,
\* holdback-internal) passes, every id the conditioned pass applies is one of that
\* tuple's branch ids, whatever calls came before on the window.
C9_SelectedIdIsAProvidedBranch ==
  IsSelectCall =>
    \A i \in PassingTuples \cap {2, 3} :
      AppliedIds("conditioned") \subseteq SeqRange(experiments(CallLocals)[i].experimentBranchIds)

\* C10: isA4aEnabled returns false whenever the element is not Fast Fetch eligible
\* or the window origin is not the AMP CDN proxy, whatever activeExperiments_ holds.
C10_FalseOffCdnOrIneligible ==
  (/\ lastCall.op = "isA4aEnabled"
   /\ \/ lastCall.element.useRemoteHtml /\ ~lastCall.element.rtcConfig
      \/ lastCall.element.sameDomainAttribute
      \/ lastCall.element.sameDomainDataset
      \/ WinOrigin[lastCall.win] \notin CdnProxyOrigins)
  => (~lastCall.threw /\ lastCall.result = "false")

C10_Witness ==
  /\ lastCall.op = "isA4aEnabled"
  /\ ~isCdnProxy(lastCall.win)
  /\ isFastFetchEligible(lastCall.element)
  /\ DOUBLECLICK_EXPERIMENT_FEATURE.CANONICAL_EXPERIMENT \in AppliedIds("conditioned")
  /\ DOUBLECLICK_UNCONDITIONED_EXPERIMENTS.FF_CANONICAL_EXP \in activeExperiments_
  /\ lastCall.result = "false"

====
